---- MODULE Spec2Model ----
(***************************************************************************)
(* Model of translator_final.py: the CSV vocabulary loader                 *)
(* load_translations_from_file and the interactive shell that follows it.  *)
(* A string is a sequence of one-character strings, so that strip(),       *)
(* lower() and the csv split are computed rather than assumed.             *)
(***************************************************************************)
EXTENDS Integers, Sequences, FiniteSets, TLC

(***************************************************************************)
(* Characters and strings                                                  *)
(***************************************************************************)
TAB == "\t"
COMMA == ","

\* Code-point order of the characters the model's inputs are written in.
Alphabet ==
    <<"\t", " ", ",",
      "A", "B", "C", "D", "E", "F", "G", "H", "I", "J", "K", "L", "M",
      "N", "O", "P", "Q", "R", "S", "T", "U", "V", "W", "X", "Y", "Z",
      "a", "b", "c", "d", "e", "f", "g", "h", "i", "j", "k", "l", "m",
      "n", "o", "p", "q", "r", "s", "t", "u", "v", "w", "x", "y", "z">>

Ord(c) == CHOOSE i \in 1..Len(Alphabet) : Alphabet[i] = c

\* str.isspace for one character.
IsSpace(c) == c \in {" ", "\t"}

\* str.lower() of one character: "A".."Z" are positions 4..29 of Alphabet, "a".."z" follow.
LowerChar ==
    [c \in {Alphabet[i] : i \in 1..Len(Alphabet)} |->
        IF Ord(c) \in 4..29 THEN Alphabet[Ord(c) + 26] ELSE c]

\* str.lower()
lower(s) == [i \in 1..Len(s) |-> LowerChar[s[i]]]

SetMin(S) == CHOOSE x \in S : \A y \in S : x <= y
SetMax(S) == CHOOSE x \in S : \A y \in S : x >= y

\* str.strip(): drops leading and trailing whitespace, keeps inner whitespace.
strip(s) ==
    LET keep == {i \in 1..Len(s) : ~IsSpace(s[i])}
    IN  IF keep = {} THEN <<>> ELSE SubSeq(s, SetMin(keep), SetMax(keep))

\* Python's order on str: lexicographic by code point, a proper prefix first.
StrLess(a, b) ==
    \E k \in 1..(Len(b)) :
        /\ \A j \in 1..(k - 1) : j <= Len(a) /\ a[j] = b[j]
        /\ \/ k = Len(a) + 1
           \/ k <= Len(a) /\ Ord(a[k]) < Ord(b[k])

\* sorted(list(d.keys())) for a set of distinct strings.
sorted(S) ==
    LET n == Cardinality(S)
        one == CHOOSE f \in [1..n -> S] : \A i, j \in 1..n : i # j => f[i] # f[j]
    IN  SortSeq(one, StrLess)

\* ", ".join is not modelled: messages carry their arguments unformatted.

(***************************************************************************)
(* csv.reader over one physical line (no quote characters in the inputs)   *)
(***************************************************************************)
\* csv.reader(f, delimiter=',')
delimiter_tab == TAB
delimiter == COMMA

RECURSIVE split(_, _)
split(s, d) ==
    IF \A i \in 1..Len(s) : s[i] # d
    THEN <<s>>
    ELSE LET k == SetMin({i \in 1..Len(s) : s[i] = d})
         IN  <<SubSeq(s, 1, k - 1)>> \o split(SubSeq(s, k + 1, Len(s)), d)

\* A row as csv.reader yields it: an empty line is the empty list.
csv_row(line) == IF line = <<>> THEN <<>> ELSE split(line, delimiter)

RECURSIVE join(_, _)
\* The text of a line whose cells are separated by d (how the input files are written).
join(cells, d) ==
    IF Len(cells) = 0 THEN <<>>
    ELSE IF Len(cells) = 1 THEN cells[1]
    ELSE cells[1] \o <<d>> \o join(Tail(cells), d)

(***************************************************************************)
(* Dictionaries: a dict is a function; {} is the empty function            *)
(***************************************************************************)
EmptyDict == <<>>

\* d[k] = v
Put(d, k, v) == [x \in (DOMAIN d) \cup {k} |-> IF x = k THEN v ELSE d[x]]

\* The value of a variable that has not been assigned yet.
None == <<"None">>

(***************************************************************************)
(* Inputs: the vocabulary file on disk and the lines typed on stdin        *)
(***************************************************************************)
\* Most data lines a file holds after its header line: when the whole program runs,
\* and when the loader alone is examined.
MaxRows == 2
MaxLoaderRows == 3

c_english == <<"e", "n", "g", "l", "i", "s", "h">>
c_English_padded == <<" ", "E", "n", "g", "l", "i", "s", "h", " ">>
c_french == <<"f", "r", "e", "n", "c", "h">>
c_French == <<"F", "r", "e", "n", "c", "h">>
c_german == <<"g", "e", "r", "m", "a", "n">>
c_exit == <<"e", "x", "i", "t">>
c_cat == <<"c", "a", "t">>
c_Cat_padded == <<" ", "C", "a", "t", " ">>
c_chat == <<"c", "h", "a", "t">>
c_Chien_padded == <<" ", "C", "h", "i", "e", "n", " ">>
c_Katze == <<"K", "a", "t", "z", "e">>
c_dog == <<"d", "o", "g">>
c_Hund == <<"H", "u", "n", "d">>
c_back == <<"b", "a", "c", "k">>
c_dos == <<"d", "o", "s">>
c_blank == <<" ">>
c_empty == <<>>

\* Header lines of the comma-separated files; the last is a blank first line.
HeaderLines ==
    { join(<<c_english, c_french, c_german>>, COMMA),
      join(<<c_English_padded, c_French>>, COMMA),
      join(<<c_french, c_english>>, COMMA),
      join(<<c_french, c_german>>, COMMA),
      join(<<c_english, c_exit>>, COMMA),
      join(<<c_english, c_french, c_french>>, COMMA),
      join(<<c_english, c_french, c_english>>, COMMA),
      c_english,
      c_empty }

\* Data lines of the comma-separated files.
DataLines ==
    { join(<<c_cat, c_chat, c_Katze>>, COMMA),
      join(<<c_Cat_padded, c_Chien_padded>>, COMMA),
      c_cat,
      c_empty,
      join(<<c_blank, c_blank>>, COMMA),
      join(<<c_dog, c_empty, c_Hund>>, COMMA),
      join(<<c_back, c_dos, c_Hund>>, COMMA) }

\* The tab-separated example file and the same file comma-separated.
TabExample ==
    <<join(<<c_english, c_french, c_german>>, TAB), join(<<c_cat, c_chat, c_Katze>>, TAB)>>
CommaExample ==
    <<join(<<c_english, c_french, c_german>>, COMMA), join(<<c_cat, c_chat, c_Katze>>, COMMA)>>

RowSeqs(max) == UNION {[1..n -> DataLines] : n \in 0..max}

\* The lines of the file at file_path: empty, a header and up to max data lines, or an example.
FileLines(max) ==
    {<<>>, TabExample} \cup {<<h>> \o rows : h \in HeaderLines, rows \in RowSeqs(max)}

\* What open() finds at file_path.
Files(max) ==
    {[status |-> "ok", lines |-> ls] : ls \in FileLines(max)}
        \cup {[status |-> st, lines |-> <<>>] : st \in {"missing", "unreadable"}}

\* Lines the user types at a prompt.
InputLines ==
    { <<"E", "x", "i", "t">>, <<"F", "r", "e", "n", "c", "h">>, <<"g", "e", "r", "m", "a", "n">>,
      <<"B", "a", "c", "k">>, <<"C", "a", "t">>, <<"d", "o", "g">> }

(***************************************************************************)
(* State                                                                   *)
(***************************************************************************)
VARIABLES
    file,                       \* the file at file_path (never written)
    pc,                         \* where control is
    loader_exit,                \* which return of load_translations_from_file was taken
    row_no,                     \* data lines csv_reader has yielded so far
    headers, column_indices, detected_target_languages, english_idx,
    all_language_translations,  \* the loader's locals
    all_translations, available_target_languages, available_english_words,
    user_language_choice, user_word_input,
    stdin_line,                 \* the line the last input() call returned
    out                         \* what the last step printed

loader_vars ==
    <<row_no, headers, column_indices, detected_target_languages, english_idx,
      all_language_translations>>
main_vars == <<all_translations, available_target_languages, available_english_words>>
shell_vars == <<user_language_choice, user_word_input, stdin_line>>
vars == <<file, pc, loader_exit, loader_vars, main_vars, shell_vars, out>>

\* print(...) of one message with its arguments.
Msg(kind, args) == <<kind, args>>

InitWith(files) ==
    /\ file \in files
    /\ pc = "open"
    /\ loader_exit = "none"
    /\ row_no = 0
    /\ headers = None
    /\ column_indices = None
    /\ detected_target_languages = <<>>
    /\ english_idx = -1
    /\ all_language_translations = EmptyDict
    /\ all_translations = None
    /\ available_target_languages = None
    /\ available_english_words = None
    /\ user_language_choice = None
    /\ user_word_input = None
    /\ stdin_line = None
    /\ out = <<Msg("loading", <<>>)>>

Init == InitWith(Files(MaxRows))
LoaderInit == InitWith(Files(MaxLoaderRows))

(***************************************************************************)
(* load_translations_from_file                                             *)
(***************************************************************************)
source_language_name == c_english

\* Python indexes from 0.
At(seq, i) == seq[i + 1]

\* headers = [h.strip().lower() for h in header_row]
normalize_header(header_row) == [i \in 1..Len(header_row) |-> lower(strip(header_row[i]))]

\* column_indices that keeps the first column of a repeated name.
build_column_indices_first(hs) ==
    [h \in {hs[i] : i \in 1..Len(hs)} |-> SetMin({i \in 1..Len(hs) : hs[i] = h}) - 1]

\* column_indices[header] = i for i, header in enumerate(headers): a later column replaces an earlier one.
build_column_indices(hs) ==
    [h \in {hs[i] : i \in 1..Len(hs)} |-> SetMax({i \in 1..Len(hs) : hs[i] = h}) - 1]

\* [h for h in headers if h != source_language_name]
detect_target_languages(hs) ==
    LET is_target(h) == h # source_language_name IN SelectSeq(hs, is_target)

\* {lang: {} for lang in detected_target_languages}
empty_table(langs) == [lang \in {langs[i] : i \in 1..Len(langs)} |-> EmptyDict]

\* The empty-row test without the check of the fields' contents.
is_empty_row_no_fields_only(parts) == Len(parts) = 0

\* not parts or all(not p.strip() for p in parts)
is_empty_row(parts) == Len(parts) = 0 \/ \A i \in 1..Len(parts) : strip(parts[i]) = <<>>

\* len(parts) > max(column_indices.values())
has_enough_columns(parts, ci) == Len(parts) > SetMax({ci[h] : h \in DOMAIN ci})

RECURSIVE store_row_keep_first(_, _, _, _, _)
\* store_row with setdefault in place of the assignment: an existing entry is kept.
store_row_keep_first(tbl, langs, ci, english_word, parts) ==
    IF langs = <<>> THEN tbl
    ELSE LET lang == Head(langs)
             translation == strip(At(parts, ci[lang]))
             kept == IF english_word \in DOMAIN tbl[lang]
                     THEN tbl[lang] ELSE Put(tbl[lang], english_word, translation)
         IN  store_row_keep_first(Put(tbl, lang, kept), Tail(langs), ci, english_word, parts)

\* store_row that leaves the loop after the first target language.
store_row_first_language(tbl, langs, ci, english_word, parts) ==
    IF langs = <<>> THEN tbl
    ELSE LET lang == Head(langs)
             translation == strip(At(parts, ci[lang]))
         IN  Put(tbl, lang, Put(tbl[lang], english_word, translation))

RECURSIVE store_row(_, _, _, _, _)
\* for lang in detected_target_languages: all_language_translations[lang][english_word] = parts[lang_idx].strip()
store_row(tbl, langs, ci, english_word, parts) ==
    IF langs = <<>> THEN tbl
    ELSE LET lang == Head(langs)
             translation == strip(At(parts, ci[lang]))
         IN  store_row(Put(tbl, lang, Put(tbl[lang], english_word, translation)),
                       Tail(langs), ci, english_word, parts)

\* process_row without .lower() on the English word.
process_row_no_lower(tbl, langs, ci, eidx, parts) ==
    IF is_empty_row(parts) THEN tbl
    ELSE IF has_enough_columns(parts, ci)
         THEN store_row(tbl, langs, ci, strip(At(parts, eidx)), parts)
         ELSE tbl

\* process_row that fills a short row up with empty fields instead of skipping it.
process_row_pad(tbl, langs, ci, eidx, parts) ==
    LET width == SetMax({ci[h] : h \in DOMAIN ci}) + 1
        padded == [i \in 1..SetMax({width, Len(parts)}) |->
                      IF i <= Len(parts) THEN parts[i] ELSE <<>>]
    IN  IF is_empty_row(parts) THEN tbl
        ELSE store_row(tbl, langs, ci, lower(strip(At(padded, eidx))), padded)

\* The body of the loop over the data rows: the table after one row.
process_row(tbl, langs, ci, eidx, parts) ==
    IF is_empty_row(parts) THEN tbl
    ELSE IF has_enough_columns(parts, ci)
         THEN store_row(tbl, langs, ci, lower(strip(At(parts, eidx))), parts)
         ELSE tbl

\* What the loop body prints for one row.
row_output(ci, parts) ==
    IF ~is_empty_row(parts) /\ ~has_enough_columns(parts, ci)
    THEN <<Msg("warning_malformed_row", <<parts>>)>> ELSE <<>>

\* return value: the caller's all_translations = load_translations_from_file(file_path)
Return(value, how, printed) ==
    /\ all_translations' = value
    /\ loader_exit' = how
    /\ out' = printed
    /\ pc' = "main"
    /\ UNCHANGED <<file, available_target_languages, available_english_words, shell_vars>>

\* OpenFile without the except clauses: a failing open() ends the program with a traceback.
OpenFile_uncaught ==
    /\ pc = "open"
    /\ IF file.status # "ok"
       THEN /\ pc' = "crashed"
            /\ out' = <<Msg("traceback_open", <<>>)>>
            /\ UNCHANGED <<file, loader_exit, loader_vars, main_vars, shell_vars>>
       ELSE /\ pc' = "header"
            /\ out' = <<>>
            /\ UNCHANGED <<file, loader_exit, loader_vars, main_vars, shell_vars>>

\* open(filepath, 'r', encoding='utf-8') and the two except clauses around it.
OpenFile ==
    /\ pc = "open"
    /\ CASE file.status = "missing" ->
               /\ Return(EmptyDict, "not_found", <<Msg("error_not_found", <<>>)>>)
               /\ UNCHANGED loader_vars
         [] file.status = "unreadable" ->
               /\ Return(EmptyDict, "error", <<Msg("error_unexpected", <<>>)>>)
               /\ UNCHANGED loader_vars
         [] OTHER ->
               /\ pc' = "header"
               /\ out' = <<>>
               /\ UNCHANGED <<file, loader_exit, loader_vars, main_vars, shell_vars>>

\* header_row = next(csv_reader, None) up to english_idx = column_indices[...]
ReadHeader ==
    /\ pc = "header"
    /\ IF Len(file.lines) = 0
       THEN /\ Return(EmptyDict, "empty", <<Msg("error_empty", <<>>)>>)
            /\ UNCHANGED loader_vars
       ELSE LET hs == normalize_header(csv_row(file.lines[1]))
                ci == build_column_indices(hs)
            IN  /\ headers' = hs
                /\ column_indices' = ci
                /\ IF source_language_name \notin DOMAIN ci
                   THEN /\ Return(EmptyDict, "no_english", <<Msg("error_missing_column", <<>>)>>)
                        /\ UNCHANGED <<row_no, detected_target_languages, english_idx,
                                       all_language_translations>>
                   ELSE /\ detected_target_languages' = detect_target_languages(hs)
                        /\ all_language_translations' =
                               empty_table(detect_target_languages(hs))
                        /\ english_idx' = ci[source_language_name]
                        /\ pc' = "rows"
                        /\ out' = <<>>
                        /\ UNCHANGED <<file, loader_exit, row_no, main_vars, shell_vars>>

\* One iteration of: for parts in csv_reader
ReadRow ==
    /\ pc = "rows"
    /\ row_no + 1 < Len(file.lines)
    /\ LET parts == csv_row(file.lines[row_no + 2])
       IN  /\ all_language_translations' =
                  process_row(all_language_translations, detected_target_languages,
                              column_indices, english_idx, parts)
           /\ out' = row_output(column_indices, parts)
    /\ row_no' = row_no + 1
    /\ UNCHANGED <<file, pc, loader_exit, headers, column_indices,
                   detected_target_languages, english_idx, main_vars, shell_vars>>

\* csv_reader is exhausted: return all_language_translations
EndOfRows ==
    /\ pc = "rows"
    /\ row_no + 1 = Len(file.lines)
    /\ Return(all_language_translations, "ok", <<>>)
    /\ UNCHANGED loader_vars

\* A read raises (a decoding or csv error): except Exception, return {}
ReadRaises ==
    /\ pc \in {"header", "rows"}
    /\ Return(EmptyDict, "error", <<Msg("error_unexpected", <<>>)>>)
    /\ UNCHANGED loader_vars

(***************************************************************************)
(* Main program: the lists derived from the loaded table                   *)
(***************************************************************************)
RECURSIVE first_occurrences(_)
\* The order a dict built from a list of keys iterates them in: each key where it first occurs.
first_occurrences(ks) ==
    IF ks = <<>> THEN <<>>
    ELSE LET rest == first_occurrences(SubSeq(ks, 1, Len(ks) - 1))
             last == ks[Len(ks)]
         IN  IF \E i \in 1..Len(rest) : rest[i] = last THEN rest ELSE Append(rest, last)

\* list(all_translations.keys()): the keys of the returned dict in insertion order.
keys_in_order(table, langs) ==
    LET is_key(k) == k \in DOMAIN table IN SelectSeq(first_occurrences(langs), is_key)

\* The sorted English words of the first target language, [] when there is none.
english_words_of(table, langs) ==
    IF langs = <<>> THEN <<>>
    ELSE IF table[langs[1]] = EmptyDict THEN <<>>
    ELSE sorted(DOMAIN table[langs[1]])

\* available_target_languages, available_english_words and the welcome banner.
MainSetup ==
    /\ pc = "main"
    /\ LET langs == keys_in_order(all_translations, detected_target_languages)
           words == english_words_of(all_translations, langs)
       IN  /\ available_target_languages' = langs
           /\ available_english_words' = words
           /\ out' = (IF langs # <<>> /\ words = <<>>
                      THEN <<Msg("warning_no_english_words", <<>>)>> ELSE <<>>)
                     \o <<Msg("welcome", <<>>), Msg("available_languages", langs),
                          Msg("loaded_words", <<Len(words)>>)>>
    /\ pc' = "outer"
    /\ UNCHANGED <<file, loader_exit, loader_vars, all_translations, shell_vars>>

(***************************************************************************)
(* The interactive shell                                                   *)
(***************************************************************************)
kw_exit == <<"e", "x", "i", "t">>
kw_back == <<"b", "a", "c", "k">>

\* What input() returns when stdin is closed is nothing: it raises EOFError.
EOF == <<"EOFError">>

\* input(...).lower()
read_line_raw(line) == line
read_line(line) == lower(line)

\* The prompt choices without the fallback text for an empty list.
language_prompt_choices_plain(langs) == langs

\* ", ".join(langs) if langs else "no languages available"
language_prompt_choices(langs) == IF langs # <<>> THEN langs ELSE <<"no languages available">>

\* The branch the outer loop takes on a language choice.
language_branch_valid_first(choice, langs, words) ==
    IF \E i \in 1..Len(langs) : langs[i] = choice
    THEN (IF words = <<>> THEN "no_words" ELSE "inner")
    ELSE IF choice = kw_exit THEN "exit" ELSE "invalid"
language_branch_unchecked_words(choice, langs, words) ==
    IF choice = kw_exit THEN "exit"
    ELSE IF ~\E i \in 1..Len(langs) : langs[i] = choice THEN "invalid"
    ELSE "inner"
language_branch_unvalidated(choice, langs, words) ==
    IF choice = kw_exit THEN "exit"
    ELSE IF words = <<>> THEN "no_words"
    ELSE "inner"
language_branch(choice, langs, words) ==
    IF choice = kw_exit THEN "exit"
    ELSE IF ~\E i \in 1..Len(langs) : langs[i] = choice THEN "invalid"
    ELSE IF words = <<>> THEN "no_words"
    ELSE "inner"

\* dict.get(key): None when the key is absent.
get(d, k) == IF k \in DOMAIN d THEN d[k] ELSE None

\* if translated_word: neither None nor the empty string.
truthy(v) == v # None /\ v # <<>>

\* The branch the inner loop takes on a word.
word_branch_any_key(word, translation) ==
    IF word = kw_back THEN "back"
    ELSE IF translation # None THEN "hit"
    ELSE "miss"
word_branch_lookup_first(word, translation) ==
    IF truthy(translation) THEN "hit"
    ELSE IF word = kw_back THEN "back"
    ELSE "miss"
word_branch_no_back(word, translation) ==
    IF truthy(translation) THEN "hit" ELSE "miss"
word_branch(word, translation) ==
    IF word = kw_back THEN "back"
    ELSE IF truthy(translation) THEN "hit"
    ELSE "miss"

\* One pass of the outer loop: the language prompt and what follows it.
LanguagePrompt(line) ==
    /\ pc = "outer"
    /\ LET choice == read_line(line)
           branch == language_branch(choice, available_target_languages,
                                     available_english_words)
           prompt == Msg("prompt_language",
                         language_prompt_choices(available_target_languages))
       IN  /\ stdin_line' = line
           /\ user_language_choice' = choice
           /\ CASE branch = "exit" ->
                      /\ pc' = "done"
                      /\ out' = <<prompt, Msg("farewell", <<>>)>>
                [] branch = "invalid" ->
                      /\ pc' = "outer"
                      /\ out' = <<prompt, Msg("invalid_language", available_target_languages)>>
                [] branch = "no_words" ->
                      /\ pc' = "outer"
                      /\ out' = <<prompt, Msg("no_english_words", <<>>)>>
                [] OTHER ->
                      /\ pc' = "inner"
                      /\ out' = <<prompt>>
    /\ UNCHANGED <<file, loader_exit, loader_vars, main_vars, user_word_input>>

\* WordPrompt with a lookup that inserts the missing word (setdefault in place of get).
WordPrompt_setdefault(line) ==
    /\ pc = "inner"
    /\ LET word == read_line(line)
           translation == get(all_translations[user_language_choice], word)
           branch == word_branch(word, translation)
           prompt == Msg("prompt_word", <<>>)
       IN  /\ stdin_line' = line
           /\ user_word_input' = word
           /\ CASE branch = "back" ->
                      /\ pc' = "outer"
                      /\ out' = <<prompt, Msg("returning", <<>>)>>
                      /\ UNCHANGED all_translations
                [] branch = "hit" ->
                      /\ pc' = "outer"
                      /\ out' = <<prompt,
                                  Msg("translated", <<word, user_language_choice, translation>>)>>
                      /\ UNCHANGED all_translations
                [] OTHER ->
                      /\ pc' = "inner"
                      /\ out' = <<prompt,
                                  Msg("sorry_not_available", <<word, user_language_choice>>)>>
                      /\ all_translations' =
                             Put(all_translations, user_language_choice,
                                 Put(all_translations[user_language_choice], word, <<>>))
    /\ UNCHANGED <<file, loader_exit, loader_vars, available_target_languages,
                   available_english_words, user_language_choice>>

\* One pass of the inner loop: the word prompt and what follows it.
WordPrompt(line) ==
    /\ pc = "inner"
    /\ LET word == read_line(line)
           translation == get(all_translations[user_language_choice], word)
           branch == word_branch(word, translation)
           prompt == Msg("prompt_word", <<>>)
       IN  /\ stdin_line' = line       \* translation is translated_word, read only here
           /\ user_word_input' = word
           /\ CASE branch = "back" ->
                      /\ pc' = "outer"
                      /\ out' = <<prompt, Msg("returning", <<>>)>>
                [] branch = "hit" ->
                      /\ pc' = "outer"
                      /\ out' = <<prompt,
                                  Msg("translated", <<word, user_language_choice, translation>>)>>
                [] OTHER ->
                      /\ pc' = "inner"
                      /\ out' = <<prompt,
                                  Msg("sorry_not_available", <<word, user_language_choice>>)>>
    /\ UNCHANGED <<file, loader_exit, loader_vars, main_vars, user_language_choice>>

\* stdin is closed at a prompt: input() raises EOFError, which nothing catches.
InputClosed ==
    /\ pc \in {"outer", "inner"}
    /\ stdin_line' = EOF
    /\ pc' = "crashed"
    /\ out' = <<IF pc = "outer"
                THEN Msg("prompt_language", language_prompt_choices(available_target_languages))
                ELSE Msg("prompt_word", <<>>),
                Msg("traceback_EOFError", <<>>)>>
    /\ UNCHANGED <<file, loader_exit, loader_vars, main_vars, user_language_choice,
                   user_word_input>>

Next ==
    \/ OpenFile
    \/ ReadHeader
    \/ ReadRow
    \/ EndOfRows
    \/ ReadRaises
    \/ MainSetup
    \/ \E line \in InputLines : LanguagePrompt(line)
    \/ \E line \in InputLines : WordPrompt(line)
    \/ InputClosed

Spec == Init /\ [][Next]_vars

\* The loader alone, up to the lists the main program derives from its result.
LoaderNext ==
    \/ OpenFile
    \/ ReadHeader
    \/ ReadRow
    \/ EndOfRows
    \/ ReadRaises
    \/ MainSetup

LoaderSpec == LoaderInit /\ [][LoaderNext]_vars

(***************************************************************************)
(* Properties of the loader                                                *)
(***************************************************************************)
\* The loader has returned.
Returned == pc \notin {"open", "header", "rows"}

\* The fields of the header line and of the i-th data line, as csv.reader yields them.
HeaderFields == csv_row(file.lines[1])
DataRow(i) == csv_row(file.lines[i + 1])
NumRows == Len(file.lines) - 1

\* A row with at least as many fields as the header has columns.
RowValid(i) == Len(DataRow(i)) >= Len(HeaderFields)

\* A row whose fields are all empty or whitespace.
RowBlank(i) == \A k \in 1..Len(DataRow(i)) : strip(DataRow(i)[k]) = <<>>

\* A row the loader stores: valid and not blank.
RowStored(i) == RowValid(i) /\ ~RowBlank(i)

\* The position (from 1) of the column the loader reads for a header name: the rightmost.
ColumnOf(name) == column_indices[name] + 1

\* The trimmed, lowercased source word of a row and its trimmed translation for a language.
SourceWord(i) == lower(strip(DataRow(i)[ColumnOf(source_language_name)]))
Translation(i, lang) == strip(DataRow(i)[ColumnOf(lang)])

\* lookup(lang, word) in a table: None when the language or the word is absent.
Lookup(table, lang, word) == IF lang \in DOMAIN table THEN get(table[lang], word) ELSE None

\* The row is the last stored row with its source word.
LastWithItsWord(i) ==
    \A j \in (i + 1)..NumRows : RowStored(j) => SourceWord(j) # SourceWord(i)

\* C1 as stated: after a load that reached the end of the file, for every valid data
\* row, looking up the row's trimmed, lowercased source word in any target language
\* returns the trimmed string of that row's column for the language.
C1_EveryValidRowLooksUp ==
    loader_exit = "ok" =>
        \A i \in 1..NumRows : RowValid(i) =>
            \A lang \in DOMAIN all_translations :
                Lookup(all_translations, lang, SourceWord(i)) = Translation(i, lang)

\* C1 amended: the same for every valid row that is not blank and is the last stored
\* row with its source word, the column of a language being the rightmost of that name.
C1_LastStoredRowLooksUp ==
    loader_exit = "ok" =>
        \A i \in 1..NumRows : (RowStored(i) /\ LastWithItsWord(i)) =>
            \A lang \in DOMAIN all_translations :
                Lookup(all_translations, lang, SourceWord(i)) = Translation(i, lang)

\* A padded, capitalised row has been loaded into a table with a target language.
C1_Witness ==
    /\ loader_exit = "ok"
    /\ DOMAIN all_translations # {}
    /\ \E i \in 1..NumRows :
          /\ RowStored(i) /\ LastWithItsWord(i)
          /\ SourceWord(i) # DataRow(i)[ColumnOf(source_language_name)]
          /\ \E lang \in DOMAIN all_translations :
                /\ Translation(i, lang) # DataRow(i)[ColumnOf(lang)]
                /\ Translation(i, lang) # lower(Translation(i, lang))
                /\ Lookup(all_translations, lang, SourceWord(i)) = Translation(i, lang)

\* C2: when several stored rows carry the same source word, every target language maps
\* the word to the translation of the last of them; the earlier ones are overwritten.
C2_LastRowWins ==
    loader_exit = "ok" =>
        \A i, j \in 1..NumRows :
            (/\ i < j
             /\ RowStored(i) /\ RowStored(j)
             /\ SourceWord(i) = SourceWord(j)
             /\ LastWithItsWord(j)) =>
                \A lang \in DOMAIN all_translations :
                    all_translations[lang][SourceWord(i)] = Translation(j, lang)

\* Two stored rows share a source word and differ in a translation; the later one shows.
C2_Witness ==
    /\ loader_exit = "ok"
    /\ \E i, j \in 1..NumRows :
          /\ i < j /\ RowStored(i) /\ RowStored(j)
          /\ SourceWord(i) = SourceWord(j)
          /\ \E lang \in DOMAIN all_translations :
                /\ Translation(i, lang) # Translation(j, lang)
                /\ all_translations[lang][SourceWord(i)] = Translation(j, lang)

\* The step in which the loader consumes one data row.
RowStep == pc = "rows" /\ pc' = "rows" /\ row_no' = row_no + 1

\* C3: consuming a data row with fewer fields than the header has columns leaves every
\* WordMap as it was.
C3_ShortRowSkipped ==
    [][(RowStep /\ Len(DataRow(row_no')) < Len(HeaderFields))
          => all_language_translations' = all_language_translations]_vars

\* A short row that names a source word was just consumed, with target languages present.
C3_Witness ==
    /\ pc = "rows" /\ row_no >= 1
    /\ DOMAIN all_language_translations # {}
    /\ Len(DataRow(row_no)) < Len(HeaderFields)
    /\ Len(DataRow(row_no)) >= ColumnOf(source_language_name)
    /\ SourceWord(row_no) # <<>>
    /\ \A lang \in DOMAIN all_language_translations :
          SourceWord(row_no) \notin DOMAIN all_language_translations[lang]

\* The languages a header without the source column names.
HeaderLanguages == {headers[i] : i \in 1..Len(headers)} \ {source_language_name}

\* C4: a header with no 'english' column yields a table holding an empty WordMap for
\* every language of the header.
C4_EmptyWordMapPerLanguage ==
    loader_exit = "no_english" =>
        \A lang \in HeaderLanguages :
            lang \in DOMAIN all_translations /\ all_translations[lang] = EmptyDict

\* The source words of the rows stored among the first n data rows.
StoredWords(n) == {SourceWord(i) : i \in {k \in 1..n : RowStored(k)}}

\* C5: after every prefix of the rows, and in the returned table, every WordMap has the
\* same key set: the source words of the rows stored so far.
C5_SameKeySets ==
    /\ (pc = "rows" \/ loader_exit = "ok") =>
          \A lang \in DOMAIN all_language_translations :
              DOMAIN all_language_translations[lang] = StoredWords(row_no)
    /\ loader_exit = "ok" =>
          \A lang \in DOMAIN all_translations :
              DOMAIN all_translations[lang] = StoredWords(NumRows)

\* Two languages, with a short row, a repeated source word and a further word loaded.
C5_Witness ==
    /\ loader_exit = "ok"
    /\ Cardinality(DOMAIN all_translations) >= 2
    /\ \E i \in 1..NumRows : ~RowValid(i) /\ ~RowBlank(i)
    /\ \E i, j \in 1..NumRows : i < j /\ RowStored(i) /\ RowStored(j)
                                 /\ SourceWord(i) = SourceWord(j)
    /\ \A lang \in DOMAIN all_translations : DOMAIN all_translations[lang] # {}

french == c_french
german == c_german

LanguageStep == pc = "outer" /\ pc' # "crashed" /\ stdin_line' \in InputLines

\* The step in which input() at the word prompt returns a line.
WordStep == pc = "inner" /\ pc' # "crashed" /\ stdin_line' \in InputLines

\* The prompts among the messages a step printed.
Prompts(printed) ==
    {i \in 1..Len(printed) : printed[i][1] \in {"prompt_language", "prompt_word"}}

\* The last message a step printed.
LastMsg(printed) == printed[Len(printed)]

\* C7: a line at the language prompt that lowercases to 'exit' ends the program with the
\* farewell message and no prompt after the one it answers, whatever the table holds;
\* once ended, the program takes no further step.
C7_ExitTerminates ==
    [][/\ pc # "done"
       /\ (LanguageStep /\ lower(stdin_line') = kw_exit) =>
             /\ pc' = "done"
             /\ LastMsg(out') = Msg("farewell", <<>>)
             /\ Prompts(out') = {1}]_vars

\* 'Exit' was typed while the table had a language named 'exit' and words to translate.
C7_Witness ==
    /\ pc = "done"
    /\ stdin_line # kw_exit /\ lower(stdin_line) = kw_exit
    /\ kw_exit \in DOMAIN all_translations
    /\ all_translations[kw_exit] # EmptyDict

\* The WordMap the inner loop looks words up in.
SelectedWordMap == all_translations[user_language_choice]

\* What the inner loop prints after its prompt on a hit and on a miss.
Translated(word) ==
    Msg("translated", <<word, user_language_choice, SelectedWordMap[word]>>)
Guidance(word) == Msg("sorry_not_available", <<word, user_language_choice>>)

\* C8 as stated: in the inner state, for a line that does not lowercase to 'back', a key
\* of the selected WordMap prints its translation and leads to the outer state; any
\* other word prints the guidance and stays in the inner state with the same language.
C8_KeyHitsOtherMisses ==
    [][(WordStep /\ lower(stdin_line') # kw_back) =>
          LET word == lower(stdin_line')
          IN  IF word \in DOMAIN SelectedWordMap
              THEN pc' = "outer" /\ LastMsg(out') = Translated(word)
              ELSE /\ pc' = "inner" /\ LastMsg(out') = Guidance(word)
                   /\ user_language_choice' = user_language_choice]_vars

\* C8 amended: a key whose translation is not the empty string is a hit; a word that is
\* no key, or whose translation is the empty string, is a miss.
C8_NonEmptyHitsOtherMisses ==
    [][(WordStep /\ lower(stdin_line') # kw_back) =>
          LET word == lower(stdin_line')
          IN  IF word \in DOMAIN SelectedWordMap /\ SelectedWordMap[word] # <<>>
              THEN pc' = "outer" /\ LastMsg(out') = Translated(word)
              ELSE /\ pc' = "inner" /\ LastMsg(out') = Guidance(word)
                   /\ user_language_choice' = user_language_choice]_vars

\* A key with an empty translation was just looked up and reported as not available.
C8_Witness ==
    /\ pc = "inner"
    /\ user_word_input \in DOMAIN SelectedWordMap
    /\ SelectedWordMap[user_word_input] = <<>>
    /\ stdin_line \in InputLines /\ lower(stdin_line) = user_word_input
    /\ LastMsg(out) = Guidance(user_word_input)

\* C9: the inner state is never active with a selected language whose WordMap is empty;
\* choosing such a language prints the warning and leads back to the outer state.
C9_NoInnerOnEmptyWordMap ==
    /\ [](pc = "inner" =>
             /\ user_language_choice \in DOMAIN all_translations
             /\ SelectedWordMap # EmptyDict)
    /\ [][(/\ LanguageStep
           /\ lower(stdin_line') # kw_exit
           /\ lower(stdin_line') \in DOMAIN all_translations
           /\ all_translations[lower(stdin_line')] = EmptyDict) =>
              /\ pc' = "outer"
              /\ LastMsg(out') = Msg("no_english_words", <<>>)]_vars

\* A loaded language without words was just chosen.
C9_Witness ==
    /\ pc = "outer"
    /\ stdin_line \in InputLines
    /\ user_language_choice = lower(stdin_line)
    /\ user_language_choice \in DOMAIN all_translations
    /\ SelectedWordMap = EmptyDict
    /\ LastMsg(out) = Msg("no_english_words", <<>>)

\* The loaded languages as the shell lists them.
ValidSet == available_target_languages

\* C10 as stated: a line that lowercases to a loaded language with a non-empty WordMap
\* leads to the inner state with that language selected; a line that lowercases neither
\* to 'exit' nor to a loaded language stays in the outer state and is answered with the
\* valid set.
C10_EveryLanguageSelectable ==
    [][LanguageStep =>
          LET choice == lower(stdin_line')
          IN  /\ (choice \in DOMAIN all_translations /\ all_translations[choice] # EmptyDict)
                    => (pc' = "inner" /\ user_language_choice' = choice)
              /\ (choice # kw_exit /\ choice \notin DOMAIN all_translations)
                    => (pc' = "outer" /\ LastMsg(out') = Msg("invalid_language", ValidSet))]_vars

\* C10 amended: the same for every loaded language other than one named 'exit', which
\* the exit keyword shadows.
C10_LanguageSelectableUnlessExit ==
    [][LanguageStep =>
          LET choice == lower(stdin_line')
          IN  /\ (/\ choice # kw_exit
                  /\ choice \in DOMAIN all_translations
                  /\ all_translations[choice] # EmptyDict)
                    => (pc' = "inner" /\ user_language_choice' = choice)
              /\ (choice # kw_exit /\ choice \notin DOMAIN all_translations)
                    => (pc' = "outer" /\ LastMsg(out') = Msg("invalid_language", ValidSet))]_vars

\* A capitalised language name was typed and selected the language.
C10_Witness ==
    /\ pc = "inner"
    /\ stdin_line \in InputLines
    /\ stdin_line # lower(stdin_line)
    /\ user_language_choice = lower(stdin_line)
    /\ user_language_choice \in DOMAIN all_translations
    /\ out = <<Msg("prompt_language", ValidSet)>>

\* C11: in the inner state a line that lowercases to 'back' leads to the outer state
\* with only the return notice printed: no translation, no guidance, even when 'back'
\* is a source word of the selected language.
C11_BackReturnsWithoutLookup ==
    [][(WordStep /\ lower(stdin_line') = kw_back) =>
          /\ pc' = "outer"
          /\ out' = <<Msg("prompt_word", <<>>), Msg("returning", <<>>)>>
          /\ user_language_choice' = user_language_choice]_vars

\* 'Back' was typed while 'back' was a source word with a translation in the language.
C11_Witness ==
    /\ pc = "outer"
    /\ stdin_line \in InputLines /\ stdin_line # kw_back
    /\ user_word_input = kw_back
    /\ user_language_choice \in DOMAIN all_translations
    /\ kw_back \in DOMAIN SelectedWordMap
    /\ SelectedWordMap[kw_back] # <<>>
    /\ LastMsg(out) = Msg("returning", <<>>)

\* The shell is running or has ended.
InShell == pc \in {"outer", "inner", "done", "crashed"}

\* What the loader returned: its table at the end of the file, {} on every other return.
LoadedTable == IF loader_exit = "ok" THEN all_language_translations ELSE EmptyDict

\* C12: once the loader has returned, the table is what it returned in every state of the
\* shell, and no step of the shell changes the table or the lists derived from it.
C12_TableImmutableInShell ==
    /\ [](InShell => all_translations = LoadedTable)
    /\ [][(pc \in {"outer", "inner"}) =>
             (/\ all_translations' = all_translations
              /\ available_target_languages' = available_target_languages
              /\ available_english_words' = available_english_words)]_vars

\* A word that is no key was looked up in a loaded, non-empty table, which is unchanged.
C12_Witness ==
    /\ pc = "inner"
    /\ stdin_line \in InputLines
    /\ user_word_input \notin DOMAIN SelectedWordMap
    /\ LastMsg(out) = Guidance(user_word_input)
    /\ all_translations = LoadedTable
    /\ Cardinality(DOMAIN all_translations) >= 2

\* The header line of a readable file has no column named 'english' after trim and lowercase.
NoSourceColumn ==
    /\ file.status = "ok"
    /\ Len(file.lines) >= 1
    /\ \A k \in 1..Len(HeaderFields) : lower(strip(HeaderFields[k])) # source_language_name

\* The file is missing, unreadable, or lacks the source column.
BadFile == file.status \in {"missing", "unreadable"} \/ NoSourceColumn

C13_WitnessNoSourceColumn ==
    /\ NoSourceColumn
    /\ loader_exit = "no_english"
    /\ pc = "outer"
    /\ user_language_choice = c_french
    /\ LastMsg(out) = Msg("invalid_language", <<>>)

\* The file exists and holds no line at all.
EmptyFile == file.status = "ok" /\ file.lines = <<>>

\* The language prompt that names no language.
NoLanguagesPrompt == Msg("prompt_language", <<"no languages available">>)

\* C14: after loading an empty file the available languages and the available words are
\* both the empty list, and every language prompt, the first included, says that no
\* languages are available.
C14_EmptyFileNoLanguages ==
    /\ [](EmptyFile =>
             /\ Returned => (loader_exit \in {"empty", "error"} /\ all_translations = EmptyDict)
             /\ InShell => (available_target_languages = <<>> /\ available_english_words = <<>>))
    /\ [][(EmptyFile /\ pc = "outer") => out'[1] = NoLanguagesPrompt]_vars

\* The first language prompt after loading an empty file has been answered.
C14_Witness ==
    /\ EmptyFile
    /\ loader_exit = "empty"
    /\ pc = "outer"
    /\ stdin_line \in InputLines
    /\ user_word_input = None
    /\ out[1] = NoLanguagesPrompt
    /\ available_target_languages = <<>>
    /\ available_english_words = <<>>

\* The step in which input() finds stdin closed, at either prompt.
ClosedStep == pc \in {"outer", "inner"} /\ stdin_line' = EOF

\* C15: the program ends normally on 'exit' and on a closed input stream alike: from
\* either prompt a closed stdin leads to the terminated state with the farewell, as
\* 'exit' does, and no error state is ever reached.
C15_NormalTerminationOnly ==
    /\ [](pc # "crashed")
    /\ [][ClosedStep => (pc' = "done" /\ LastMsg(out') = Msg("farewell", <<>>))]_vars

\* C16: whenever the inner state is active the selected language is a key of the loaded
\* table, so all_translations[user_language_choice] is defined.
C16_SelectedLanguageIsKey ==
    pc = "inner" =>
        /\ user_language_choice \in DOMAIN all_translations
        /\ \E i \in 1..Len(available_target_languages) :
              available_target_languages[i] = user_language_choice

\* The inner state is active after a miss, in a table with a second language.
C16_Witness ==
    /\ pc = "inner"
    /\ user_language_choice \in DOMAIN all_translations
    /\ Cardinality(DOMAIN all_translations) >= 2
    /\ user_word_input # None
    /\ user_word_input \notin DOMAIN all_translations

\* C17: no reachable state of the shell traps the user: at the language prompt a line
\* that lowercases to 'exit' can be typed and ends the program, and at the word prompt a
\* line that lowercases to 'back' can be typed and leads to the language prompt.
C17_NoTrap ==
    /\ pc = "outer" =>
          ENABLED (\E line \in InputLines :
                      lower(line) = kw_exit /\ LanguagePrompt(line) /\ pc' = "done")
    /\ pc = "inner" =>
          ENABLED (\E line \in InputLines :
                      lower(line) = kw_back /\ WordPrompt(line) /\ pc' = "outer")

\* The inner state is active with 'back' a source word of the selected language and the
\* last word a miss.
C17_Witness ==
    /\ pc = "inner"
    /\ user_language_choice \in DOMAIN all_translations
    /\ kw_back \in DOMAIN SelectedWordMap
    /\ user_word_input # None
    /\ LastMsg(out) = Guidance(user_word_input)

(***************************************************************************)
(* Repeated header names and blank rows                                    *)
(***************************************************************************)
\* The header names after trim and lowercase, read from the file itself.
HeaderName(k) == lower(strip(HeaderFields[k]))
HeaderNames == {HeaderName(k) : k \in 1..Len(HeaderFields)}

\* The columns (from 1) that carry a name, and the rightmost of them.
ColumnsNamed(name) == {k \in 1..Len(HeaderFields) : HeaderName(k) = name}
RightmostColumn(name) == SetMax(ColumnsNamed(name))

\* The source word of a row as read from the rightmost 'english' column.
RightmostSourceWord(i) == lower(strip(DataRow(i)[RightmostColumn(source_language_name)]))

\* The row is the last stored row with that source word.
LastWithRightmostWord(i) ==
    \A j \in (i + 1)..NumRows : RowStored(j) => RightmostSourceWord(j) # RightmostSourceWord(i)

BlankRow(i) == Len(DataRow(i)) = 0 \/ RowBlank(i)

\* C19: consuming a row with no fields, or with only empty or whitespace fields, leaves
\* every WordMap as it was and prints no warning, however many fields the row has.
C19_BlankRowSkipped ==
    [][(RowStep /\ BlankRow(row_no')) =>
          (all_language_translations' = all_language_translations /\ out' = <<>>)]_vars

\* A row of blank fields as wide as the header was just consumed; no WordMap has the
\* empty source word.
C19_Witness ==
    /\ pc = "rows" /\ row_no >= 1
    /\ DOMAIN all_language_translations # {}
    /\ Len(DataRow(row_no)) >= Len(HeaderFields)
    /\ RowBlank(row_no)
    /\ out = <<>>
    /\ \A lang \in DOMAIN all_language_translations :
          <<>> \notin DOMAIN all_language_translations[lang]

\* A row of blank fields narrower than the header was just consumed without a warning.
C19_WitnessShort ==
    /\ pc = "rows" /\ row_no >= 1
    /\ DOMAIN all_language_translations # {}
    /\ Len(DataRow(row_no)) \in 1..(Len(HeaderFields) - 1)
    /\ RowBlank(row_no)
    /\ out = <<>>

====
